---- MODULE Spec2Model ----
\* Filter combinator library (src/src/filter.ts): the nodes built by the
\* factories filter / and / or / not, and QueryFilterImpl.apply evaluated on
\* them.  The heap holds every QueryFilterImpl object constructed so far; a
\* child of a node is a leaf predicate, a reference to an earlier node, or a
\* value that is neither (the type system is erased at run time).
EXTENDS Integers, Sequences, FiniteSets

\* ---------------------------------------------------------------- bounds
MaxNodes == 2   \* objects on the heap, the identity constant included
MaxChildren == 3   \* entries over all the filters arrays on the heap

\* ---------------------------------------------------------------- inputs
\* Elements are opaque to the library; here an element is its set of tags.
Tags == {"foo", "bar"}
Elements == SUBSET Tags

\* Leaf predicates handed to the factories: hasTag(t) for each tag, and a
\* predicate that raises.  "tt" is the literal () => true of `identity`.
UserPredicates == Tags \cup {"boom"}

Return(b) == [kind |-> "return", val |-> b, err |-> ""]
Throw(e) == [kind |-> "throw", val |-> FALSE, err |-> e]

\* What calling the predicate fn(el) does.
callPredicate(p, el) ==
    IF p = "tt" THEN Return(TRUE)
    ELSE IF p = "boom" THEN Throw("BoomError")
    ELSE Return(p \in el)

\* ---------------------------------------------------------------- values
Intersection == "Intersection"
Union == "Union"

PredicateValue(p) == [kind |-> "pred", pred |-> p, ref |-> 0]
NodeRef(n) == [kind |-> "node", pred |-> "", ref |-> n]
\* A value that is neither a function nor an object exposing apply.
BadValue == [kind |-> "bad", pred |-> "", ref |-> 0]

\* new QueryFilterImpl(chainOp, negated, filters)
QueryFilterImpl(chainOp, negated, filters) ==
    [chainOp |-> chainOp, negated |-> negated, filters |-> filters]

isQueryFilterPredicate(value) == value.kind = "pred"

\* ------------------------------------------------------------- factories
filter(predicate) == QueryFilterImpl(Intersection, FALSE, <<predicate>>)

andUnion(filters) == QueryFilterImpl(Union, FALSE, filters)
and(filters) == QueryFilterImpl(Intersection, FALSE, filters)

orIntersection(filters) == QueryFilterImpl(Intersection, FALSE, filters)
or(filters) == QueryFilterImpl(Union, FALSE, filters)

notPlain(f) == QueryFilterImpl(Intersection, FALSE, <<f>>)
not(f) == QueryFilterImpl(Intersection, TRUE, <<f>>)

identity == filter(PredicateValue("tt"))

\* The object a `new` expression adds to the heap; existing objects stay.
allocInPlace(h, node) == IF Len(h) > 0 THEN [h EXCEPT ![Len(h)] = node] ELSE <<node>>
alloc(h, node) == Append(h, node)

\* ------------------------------------------------------------ evaluation
\* The seed passed to reduce.
seedSwapped(chainOp) == chainOp = Union
seed(chainOp) == chainOp # Union

\* accumulator && (...) does not evaluate its right side when accumulator is
\* false; accumulator || (...) does not when accumulator is true.
neverSkips(chainOp, accumulator) == FALSE
skips(chainOp, accumulator) ==
    IF chainOp = Union THEN accumulator ELSE ~accumulator

\* Value of accumulator && r, accumulator || r.
combine(chainOp, accumulator, r) ==
    IF chainOp = Union THEN accumulator \/ r ELSE accumulator /\ r

\* return this.negated ? !provisional : provisional
ignoreNegated(negated, provisional) == provisional
negate(negated, provisional) == IF negated THEN ~provisional ELSE provisional

RECURSIVE apply(_, _, _, _)
RECURSIVE reduce(_, _, _, _, _, _)
RECURSIVE reduceCatching(_, _, _, _, _, _)
RECURSIVE reduceRight(_, _, _, _, _, _)

\* isQueryFilterPredicate(fn) ? fn(el) : fn.apply(el)
\* `path` is the position of fn in the tree being evaluated: the child
\* indexes from the root.  The log lists the leaf predicates invoked.
invoke(h, fn, el, path) ==
    IF isQueryFilterPredicate(fn)
    THEN [out |-> callPredicate(fn.pred, el),
          log |-> <<[path |-> path, pred |-> fn.pred]>>]
    ELSE IF fn.kind = "node"
    THEN apply(h, h[fn.ref], el, path)
    ELSE [out |-> Throw("TypeError"), log |-> <<>>]

\* A reduce that swallows a raised error and goes on with false.
reduceCatching(h, node, el, path, i, acc) ==
    IF i > Len(node.filters) THEN acc
    ELSE IF skips(node.chainOp, acc.out.val)
    THEN reduce(h, node, el, path, i + 1, acc)
    ELSE LET r == invoke(h, node.filters[i], el, Append(path, i))
             v == IF r.out.kind = "throw" THEN FALSE ELSE r.out.val
         IN reduce(h, node, el, path, i + 1,
                   [out |-> Return(combine(node.chainOp, acc.out.val, v)),
                    log |-> acc.log \o r.log])

\* A reduce that walks the children from the last to the first.
reduceRight(h, node, el, path, i, acc) ==
    LET k == Len(node.filters) + 1 - i IN
    IF i > Len(node.filters) THEN acc
    ELSE IF acc.out.kind = "throw" THEN acc
    ELSE IF skips(node.chainOp, acc.out.val)
    THEN reduce(h, node, el, path, i + 1, acc)
    ELSE LET r == invoke(h, node.filters[k], el, Append(path, k))
         IN reduce(h, node, el, path, i + 1,
                   [out |-> IF r.out.kind = "throw" THEN r.out
                            ELSE Return(combine(node.chainOp, acc.out.val, r.out.val)),
                    log |-> acc.log \o r.log])

\* this.filters.reduce(callback, seed) from child i on, acc being the
\* accumulator so far; an error raised by the callback ends the reduce.
reduce(h, node, el, path, i, acc) ==
    IF i > Len(node.filters) THEN acc
    ELSE IF acc.out.kind = "throw" THEN acc
    ELSE IF skips(node.chainOp, acc.out.val)
    THEN reduce(h, node, el, path, i + 1, acc)
    ELSE LET r == invoke(h, node.filters[i], el, Append(path, i))
         IN reduce(h, node, el, path, i + 1,
                   [out |-> IF r.out.kind = "throw" THEN r.out
                            ELSE Return(combine(node.chainOp, acc.out.val, r.out.val)),
                    log |-> acc.log \o r.log])

\* QueryFilterImpl.apply(el) on `node`
apply(h, node, el, path) ==
    LET provisional == reduce(h, node, el, path, 1,
                              [out |-> Return(seed(node.chainOp)), log |-> <<>>])
    IN IF provisional.out.kind = "throw" THEN provisional
       ELSE [out |-> Return(negate(node.negated, provisional.out.val)),
             log |-> provisional.log]

\* ----------------------------------------------------------------- state
VARIABLES
    heap,   \* the QueryFilterImpl objects, in construction order
    call    \* the latest apply call: receiver, argument, outcome, leaf log

vars == <<heap, call>>

NoCall == [node |-> 0, el |-> {}, out |-> Return(FALSE), log |-> <<>>]

\* Values a caller can pass as a filter argument.
Children(h) ==
    {PredicateValue(p) : p \in UserPredicates}
        \cup {NodeRef(n) : n \in DOMAIN h} \cup {BadValue}

\* Entries held by the filters arrays of the objects h[1..n].
RECURSIVE Held(_, _)
Held(h, n) == IF n = 0 THEN 0 ELSE Len(h[n].filters) + Held(h, n - 1)

\* Room left for the arguments of one more factory call.
Room(h) == MaxChildren - Held(h, Len(h))

ArgLists(h) == UNION {[1..n -> Children(h)] : n \in 0..Room(h)}

Init ==
    /\ heap = <<identity>>
    /\ call = NoCall

Filter(p) ==
    /\ Len(heap) < MaxNodes
    /\ Room(heap) >= 1
    /\ heap' = alloc(heap, filter(PredicateValue(p)))
    /\ UNCHANGED call

And(fs) ==
    /\ Len(heap) < MaxNodes
    /\ heap' = alloc(heap, and(fs))
    /\ UNCHANGED call

Or(fs) ==
    /\ Len(heap) < MaxNodes
    /\ heap' = alloc(heap, or(fs))
    /\ UNCHANGED call

Not(f) ==
    /\ Len(heap) < MaxNodes
    /\ Room(heap) >= 1
    /\ heap' = alloc(heap, not(f))
    /\ UNCHANGED call

Apply(n, el) ==
    /\ LET r == apply(heap, heap[n], el, <<>>)
       IN call' = [node |-> n, el |-> el, out |-> r.out, log |-> r.log]
    /\ UNCHANGED heap

Next ==
    \/ \E p \in UserPredicates : Filter(p)
    \/ \E fs \in ArgLists(heap) : And(fs)
    \/ \E fs \in ArgLists(heap) : Or(fs)
    \/ \E f \in Children(heap) : Not(f)
    \/ \E n \in DOMAIN heap, el \in Elements : Apply(n, el)

Spec == Init /\ [][Next]_vars

\* ------------------------------------------------------- claim helpers
\* Outcome of node.apply(el), and of evaluating a filter argument f on el.
Res(h, node, el) == apply(h, node, el, <<>>).out
ChildRes(h, f, el) == invoke(h, f, el, <<>>).out
Last(h) == h[Len(h)]

AllReturn(h, fs, el) ==
    \A i \in DOMAIN fs : ChildRes(h, fs[i], el).kind = "return"

Perms(n) == {p \in [1..n -> 1..n] : \A i, j \in 1..n : p[i] = p[j] => i = j}

\* and(fs[1..k], and(fs[k+1..n])) and and(and(fs[1..k]), fs[k+1..n])
GroupRight(h, fs, k) ==
    LET h1 == alloc(h, and(SubSeq(fs, k + 1, Len(fs))))
    IN alloc(h1, and(Append(SubSeq(fs, 1, k), NodeRef(Len(h1)))))
GroupLeft(h, fs, k) ==
    LET h1 == alloc(h, and(SubSeq(fs, 1, k)))
    IN alloc(h1, and(<<NodeRef(Len(h1))>> \o SubSeq(fs, k + 1, Len(fs))))

\* C1: and(f1..fn).apply(x) is the conjunction of the children's results on
\* x (true for n = 0), and stays the same under every permutation and every
\* grouping of the children, the children being filters that return booleans.
C1_AndIsConjunction ==
    \A n \in DOMAIN heap : \A el \in Elements :
        LET fs == heap[n].filters
            r == Res(heap, heap[n], el)
        IN (heap[n] = and(fs) /\ AllReturn(heap, fs, el)) =>
            /\ r = Return(\A i \in DOMAIN fs : ChildRes(heap, fs[i], el).val)
            /\ Len(fs) = 0 => r = Return(TRUE)
            /\ \A p \in Perms(Len(fs)) :
                  Res(heap, and([i \in DOMAIN fs |-> fs[p[i]]]), el) = r
            /\ \A k \in 1..(Len(fs) - 1) :
                  /\ Res(GroupRight(heap, fs, k), Last(GroupRight(heap, fs, k)), el) = r
                  /\ Res(GroupLeft(heap, fs, k), Last(GroupLeft(heap, fs, k)), el) = r

\* An and of a composite and a leaf was applied where the composite is true
\* and the leaf false.
C1_Witness ==
    /\ call.node # 0
    /\ LET fs == heap[call.node].filters
       IN /\ heap[call.node] = and(fs)
          /\ Len(fs) = 2
          /\ fs[1].kind = "node"
          /\ fs[2].kind = "pred"
          /\ ChildRes(heap, fs[1], call.el) = Return(TRUE)
          /\ ChildRes(heap, fs[2], call.el) = Return(FALSE)
          /\ call.out = Return(FALSE)

\* C2: or(f1..fn).apply(x) is the disjunction of the children's results on
\* x: false for n = 0, f1 || f2 for n = 2.
C2_OrIsDisjunction ==
    \A n \in DOMAIN heap : \A el \in Elements :
        LET fs == heap[n].filters
            r == Res(heap, heap[n], el)
        IN (heap[n] = or(fs) /\ AllReturn(heap, fs, el)) =>
            /\ r = Return(\E i \in DOMAIN fs : ChildRes(heap, fs[i], el).val)
            /\ Len(fs) = 0 => r = Return(FALSE)
            /\ Len(fs) = 2 =>
                  r = Return(ChildRes(heap, fs[1], el).val
                                \/ ChildRes(heap, fs[2], el).val)

\* An or of two leaves was applied where only the second one is true.
C2_Witness ==
    /\ call.node # 0
    /\ LET fs == heap[call.node].filters
       IN /\ heap[call.node] = or(fs)
          /\ Len(fs) = 2
          /\ ChildRes(heap, fs[1], call.el) = Return(FALSE)
          /\ ChildRes(heap, fs[2], call.el) = Return(TRUE)
          /\ call.out = Return(TRUE)

\* The heap after not(f), and after not(not(f)).
NotOf(h, f) == alloc(h, not(f))
NotNotOf(h, f) == alloc(NotOf(h, f), not(NodeRef(Len(h) + 1)))

\* C3: not(f).apply(x) is the negation of f's result on x, and
\* not(not(f)).apply(x) is f's result on x, for f a leaf or a composite.
C3_NotNegates ==
    \A f \in Children(heap) \ {BadValue} : \A el \in Elements :
        LET r == ChildRes(heap, f, el)
        IN r.kind = "return" =>
            /\ Res(NotOf(heap, f), Last(NotOf(heap, f)), el) = Return(~r.val)
            /\ Res(NotNotOf(heap, f), Last(NotNotOf(heap, f)), el) = r
            /\ \A n \in DOMAIN heap :
                  heap[n] = not(f) => Res(heap, heap[n], el) = Return(~r.val)

\* not of a composite was applied, the composite being true.
C3_Witness ==
    /\ call.node # 0
    /\ \E m \in DOMAIN heap :
          /\ heap[call.node] = not(NodeRef(m))
          /\ Res(heap, heap[m], call.el) = Return(TRUE)
          /\ call.out = Return(FALSE)
          /\ Res(NotOf(heap, NodeRef(call.node)),
                 Last(NotOf(heap, NodeRef(call.node))), call.el) = Return(TRUE)

\* The heap after not(and(f1, f2)) where node n is and(f1, f2), and after
\* or(not(f1), not(f2)).
NotAnd(h, n) == alloc(h, not(NodeRef(n)))
OrNots(h, f1, f2) ==
    LET h1 == alloc(h, not(f1))
        h2 == alloc(h1, not(f2))
    IN alloc(h2, or(<<NodeRef(Len(h1)), NodeRef(Len(h2))>>))

\* C4: De Morgan: not(and(f1, f2)).apply(x) and or(not(f1), not(f2)).apply(x)
\* have the same outcome for all f1, f2 and x.
C4_DeMorgan ==
    \A n \in DOMAIN heap : \A el \in Elements :
        LET fs == heap[n].filters
        IN (heap[n] = and(fs) /\ Len(fs) = 2) =>
            Res(NotAnd(heap, n), Last(NotAnd(heap, n)), el)
                = Res(OrNots(heap, fs[1], fs[2]), Last(OrNots(heap, fs[1], fs[2])), el)

\* and(f1, f2) exists with f1 true and f2 false on the element it was applied
\* to, so that both sides of the law are true there.
C4_Witness ==
    /\ call.node # 0
    /\ LET fs == heap[call.node].filters
       IN /\ heap[call.node] = and(fs)
          /\ Len(fs) = 2
          /\ ChildRes(heap, fs[1], call.el) = Return(TRUE)
          /\ ChildRes(heap, fs[2], call.el) = Return(FALSE)
          /\ call.out = Return(FALSE)
          /\ Res(NotAnd(heap, call.node), Last(NotAnd(heap, call.node)), call.el)
                = Return(TRUE)
          /\ Res(OrNots(heap, fs[1], fs[2]), Last(OrNots(heap, fs[1], fs[2])), call.el)
                = Return(TRUE)

\* C5 as stated: not(and()).apply(x) is true and not(or()).apply(x) is false.
C5_Original ==
    \A n \in DOMAIN heap : \A el \in Elements :
        /\ heap[n] = and(<<>>) =>
              Res(NotAnd(heap, n), Last(NotAnd(heap, n)), el) = Return(TRUE)
        /\ heap[n] = or(<<>>) =>
              Res(NotAnd(heap, n), Last(NotAnd(heap, n)), el) = Return(FALSE)

\* C5 amended: not(and()).apply(x) is false and not(or()).apply(x) is true:
\* the negation of the empty combinator's seed.
C5_NotOfEmpty ==
    \A n \in DOMAIN heap : \A el \in Elements :
        /\ heap[n] = and(<<>>) =>
              /\ Res(heap, heap[n], el) = Return(TRUE)
              /\ Res(NotAnd(heap, n), Last(NotAnd(heap, n)), el) = Return(FALSE)
        /\ heap[n] = or(<<>>) =>
              /\ Res(heap, heap[n], el) = Return(FALSE)
              /\ Res(NotAnd(heap, n), Last(NotAnd(heap, n)), el) = Return(TRUE)

\* or() was built and applied, and not of it evaluates to true.
C5_Witness ==
    /\ call.node # 0
    /\ heap[call.node] = or(<<>>)
    /\ call.out = Return(FALSE)
    /\ Res(NotAnd(heap, call.node), Last(NotAnd(heap, call.node)), call.el)
          = Return(TRUE)

\* --------------------------------------------------- leaf occurrences
\* The filter argument found at `path` below `node`.
RECURSIVE ChildAt(_, _, _)
ChildAt(h, node, path) ==
    LET c == node.filters[path[1]]
    IN IF Len(path) = 1 THEN c ELSE ChildAt(h, h[c.ref], Tail(path))

\* The positions of the leaf predicates of the tree below `node`, one per
\* occurrence.
RECURSIVE LeafPaths(_, _, _)
LeafPaths(h, node, path) ==
    UNION { LET c == node.filters[i]
            IN IF c.kind = "pred" THEN {Append(path, i)}
               ELSE IF c.kind = "node" THEN LeafPaths(h, h[c.ref], Append(path, i))
               ELSE {}
            : i \in DOMAIN node.filters }

\* The node that holds the child at `path`.
ParentAt(h, root, path) ==
    IF Len(path) = 1 THEN root
    ELSE h[ChildAt(h, root, SubSeq(path, 1, Len(path) - 1)).ref]

\* The reduction of every node on the way to `path` gets as far as the child
\* on the way: each earlier sibling returned, true under Intersection, false
\* under Union.
Reached(h, root, el, path) ==
    \A k \in 1..Len(path) :
        LET parent == ParentAt(h, root, SubSeq(path, 1, k))
        IN \A j \in 1..(path[k] - 1) :
              ChildRes(h, parent.filters[j], el)
                  = Return(parent.chainOp = Intersection)

LogPaths == {call.log[i].path : i \in DOMAIN call.log}

\* p comes before q in a depth-first, left-to-right walk.
Before(p, q) ==
    \E k \in 1..Len(p) :
        /\ k <= Len(q)
        /\ p[k] < q[k]
        /\ \A j \in 1..(k - 1) : p[j] = q[j]

IsPrefix(p, q) == Len(p) <= Len(q) /\ SubSeq(q, 1, Len(p)) = p

RaisedAt(i) == callPredicate(call.log[i].pred, call.el).kind = "throw"

C7_Original ==
    (call.node # 0 /\ call.out.kind = "return") =>
        /\ LogPaths = LeafPaths(heap, heap[call.node], <<>>)
        /\ Len(call.log) = Cardinality(LogPaths)

\* C7 amended: every call of apply(x) invokes, once per occurrence, exactly
\* the leaf predicates its reductions reach: a child is evaluated when every
\* earlier sibling returned true (Intersection) or false (Union) and its
\* parent was itself evaluated.  Nothing is remembered between calls.
C7_InvokesReachedLeaves ==
    call.node # 0 =>
        /\ LogPaths = {p \in LeafPaths(heap, heap[call.node], <<>>) :
                          Reached(heap, heap[call.node], call.el, p)}
        /\ Len(call.log) = Cardinality(LogPaths)
        /\ \A i \in DOMAIN call.log :
              ChildAt(heap, heap[call.node], call.log[i].path)
                  = PredicateValue(call.log[i].pred)
        /\ call.log = apply(heap, heap[call.node], call.el, <<>>).log

\* The same sub-tree occurs twice in the tree applied and its leaf was
\* invoked twice.
C7_Witness ==
    /\ call.node # 0
    /\ LET fs == heap[call.node].filters
       IN /\ Len(fs) = 2
          /\ fs[1] = fs[2]
          /\ fs[1].kind = "node"
    /\ Len(call.log) = 2
    /\ call.log[1].pred = call.log[2].pred
    /\ call.log[1].path # call.log[2].path

\* C8 as stated: apply(x) on a node that has a child which is neither a
\* function nor an object exposing apply ends in an error, wherever the child
\* stands and whatever its siblings return.
C8_BadChildRaises ==
    (call.node # 0
        /\ \E i \in DOMAIN heap[call.node].filters :
              heap[call.node].filters[i] = BadValue)
        => call.out.kind = "throw"

\* C9: every object on the heap keeps its chainOp, negated and filters through
\* every factory call and every apply call.
C9_NodesImmutable ==
    [][\A n \in DOMAIN heap : n \in DOMAIN heap' /\ heap'[n] = heap[n]]_vars

\* A node was built on top of the identity constant and applied.
C9_Witness ==
    /\ call.node # 0
    /\ Len(heap) >= 2
    /\ heap[1] = identity
    /\ \E i \in DOMAIN heap[Len(heap)].filters :
          heap[Len(heap)].filters[i] = NodeRef(1)

====
